---- MODULE Spec2Model ----
(***************************************************************************)
(* A model of the VimEngine class of vim-trainer (src/vim-engine.ts, kept  *)
(* here as src/unnamed/part_002): the editor state, the key-event handler  *)
(* of each mode, the edit/register operations and the decay timer of a     *)
(* pending multi-key prefix.                                               *)
(*                                                                         *)
(* Strings are sequences of one-character strings; a JavaScript index i    *)
(* is the TLA+ index i + 1.  An engine is a record e; every method is an   *)
(* operator from the engine before the call to the engine after it.        *)
(***************************************************************************)
EXTENDS Integers, Sequences, FiniteSets, TLC

VARIABLES lines, cursor, mode, selection, commandBuffer, registers,
          lastSearch, message, countBuffer, commandTimeout, timers,
          event, ret, notified, origin, script, events

vars == <<lines, cursor, mode, selection, commandBuffer, registers,
          lastSearch, message, countBuffer, commandTimeout, timers,
          event, ret, notified, origin, script, events>>

\* ------------------------------------------------------------------ bounds

\* The number of events (key events, content loads, cursor sets, timer
\* expiries) of one behaviour of the free-running specification.
MaxEvents == 3

\* The number of lines of a buffer a scripted run starts from.
MaxLines == 3

\* ------------------------------------------------------------ characters

NL == "\n"
DQ == "\""
SQ == "'"
null == <<>>

WordChars == {"a", "b", "A", "c", "1", "2", "3", "0"}
SpaceChars == {" ", NL}

Min(a, b) == IF a < b THEN a ELSE b
Max(a, b) == IF a > b THEN a ELSE b

\* line[i]: undefined beyond the end of the string
CharAt(line, i) == IF i >= 0 /\ i < Len(line) THEN line[i + 1] ELSE "undefined"

\* /\w/.test(c): test() converts undefined to the string "undefined"
IsWord(c) == c \in WordChars \/ c = "undefined"

\* /\s/.test(c)
IsSpace(c) == c \in SpaceChars

\* String.prototype.toLowerCase
toLowerCase(str) == [i \in 1..Len(str) |-> IF str[i] = "A" THEN "a" ELSE str[i]]

\* String.prototype.substring(a, b): both ends clamped, swapped when a > b
substring(str, a, b) ==
    LET ca == Max(0, Min(a, Len(str)))
        cb == Max(0, Min(b, Len(str)))
    IN  SubSeq(str, Min(ca, cb) + 1, Max(ca, cb))

\* String.prototype.substring(a)
substringFrom(str, a) == substring(str, a, Len(str))

\* whether pat occurs in str at JavaScript index i
OccursAt(str, pat, i) ==
    /\ i >= 0
    /\ i + Len(pat) <= Len(str)
    /\ SubSeq(str, i + 1, i + Len(pat)) = pat

\* String.prototype.indexOf(pat, from)
indexOf(str, pat, from) ==
    LET start == Max(0, Min(from, Len(str)))
        hits == {i \in start..Len(str) : OccursAt(str, pat, i)}
    IN  IF hits = {} THEN -1 ELSE CHOOSE i \in hits : \A j \in hits : i <= j

\* String.prototype.lastIndexOf(pat, from): a negative from counts as 0
lastIndexOf(str, pat, from) ==
    LET start == Max(0, Min(from, Len(str)))
        hits == {i \in 0..start : OccursAt(str, pat, i)}
    IN  IF hits = {} THEN -1 ELSE CHOOSE i \in hits : \A j \in hits : i >= j

\* String.prototype.search(/\S/)
searchNonSpace(str) ==
    LET hits == {i \in 0..(Len(str) - 1) : ~IsSpace(str[i + 1])}
    IN  IF hits = {} THEN -1 ELSE CHOOSE i \in hits : \A j \in hits : i <= j

\* Array.prototype.join('\n')
RECURSIVE joinNL(_)
joinNL(ls) ==
    IF Len(ls) = 0 THEN <<>>
    ELSE IF Len(ls) = 1 THEN ls[1]
    ELSE ls[1] \o <<NL>> \o joinNL(Tail(ls))

\* String.prototype.split('\n')
RECURSIVE splitNL(_)
splitNL(str) ==
    LET i == indexOf(str, <<NL>>, 0)
    IN  IF i = -1 THEN <<str>>
        ELSE <<substring(str, 0, i)>> \o splitNL(substringFrom(str, i + 1))

\* Array.prototype.splice(at, n, ...items) on a copy
splice(ls, at, n, items) ==
    LET a == Max(0, Min(at, Len(ls)))
        k == Max(0, Min(n, Len(ls) - a))
    IN  SubSeq(ls, 1, a) \o items \o SubSeq(ls, a + k + 1, Len(ls))

\* parseInt of a string of decimal digits; NaN (the empty string) is 0
Digit(c) == CASE c = "0" -> 0 [] c = "1" -> 1 [] c = "2" -> 2 [] c = "3" -> 3
              [] c = "4" -> 4 [] c = "5" -> 5 [] c = "6" -> 6 [] c = "7" -> 7
              [] c = "8" -> 8 [] c = "9" -> 9

RECURSIVE parseInt(_)
parseInt(str) ==
    IF Len(str) = 0 THEN 0
    ELSE 10 * parseInt(SubSeq(str, 1, Len(str) - 1)) + Digit(str[Len(str)])

Digits19 == {"1", "2", "3", "4", "5", "6", "7", "8", "9"}
Digits09 == Digits19 \cup {"0"}

\* ------------------------------------------------------------ the engine

\* getState() copies the fields of the state: the snapshot holds the strings
\* of the state, and the very array of lines and the very cursor, selection
\* and register objects the engine holds.  The field shed of an engine tells
\* what became, in the event being handled, of the objects held when the
\* event began: <<>> for an object the engine still holds, and <<v>> for one
\* the engine has replaced, v being what it contained when it was replaced.
NothingShed == [lines |-> <<>>, cursor |-> <<>>, selection |-> <<>>]

\* this.state.lines = ls
assignLines(e, ls) ==
    [e EXCEPT !.lines = ls,
              !.shed.lines = IF @ = <<>> THEN <<e.lines>> ELSE @]

\* this.state.cursor = c
assignCursor(e, c) ==
    [e EXCEPT !.cursor = c,
              !.shed.cursor = IF @ = <<>> THEN <<e.cursor>> ELSE @]

\* this.state.selection = sel
assignSelection(e, sel) ==
    [e EXCEPT !.selection = sel,
              !.shed.selection = IF @ = <<>> THEN <<e.selection>> ELSE @]

\* getState(), as read when it is taken
getState(e) ==
    [lines |-> e.lines, cursor |-> e.cursor, mode |-> e.mode, selection |-> e.selection,
     commandBuffer |-> e.commandBuffer, registers |-> e.registers,
     lastSearch |-> e.lastSearch, message |-> e.message]

\* the snapshot taken of the engine before an event, as read after the
\* event, which has left the engine after; the registers object is never
\* replaced
prevState(before, after) ==
    [getState(before) EXCEPT
        !.lines = IF after.shed.lines = <<>> THEN after.lines ELSE after.shed.lines[1],
        !.cursor = IF after.shed.cursor = <<>> THEN after.cursor ELSE after.shed.cursor[1],
        !.selection = IF after.shed.selection = <<>> THEN after.selection
                      ELSE after.shed.selection[1],
        !.registers = after.registers]

\* new VimEngine(initialContent), with no timer pending in the browser
constructor(initialContent) ==
    [lines |-> initialContent,
     cursor |-> [line |-> 0, col |-> 0],
     mode |-> "normal",
     selection |-> null,
     commandBuffer |-> <<>>,
     registers |-> (DQ :> <<>>),
     lastSearch |-> <<>>,
     message |-> "",
     countBuffer |-> <<>>,
     commandTimeout |-> 0,
     timers |-> {},
     shed |-> NothingShed]

\* clampCursor(cursor)
clampCursor(e, c) ==
    LET line == Max(0, Min(c.line, Len(e.lines) - 1))
        lineLength == IF line < Len(e.lines) THEN Len(e.lines[line + 1]) ELSE 0
        maxCol == IF e.mode = "insert" THEN lineLength ELSE Max(0, lineLength - 1)
        col == Max(0, Min(c.col, maxCol))
    IN  [line |-> line, col |-> col]

getCurrentLine(e) ==
    IF e.cursor.line >= 0 /\ e.cursor.line < Len(e.lines)
    THEN e.lines[e.cursor.line + 1] ELSE <<>>

setCurrentLine(e, text) == [e EXCEPT !.lines[e.cursor.line + 1] = text]

reclamp(e) == assignCursor(e, clampCursor(e, e.cursor))


\* ------------------------------------------------------------ motions

\* while (col < line.length && /\w/.test(line[col])) col++
RECURSIVE skipWord(_, _)
skipWord(line, col) ==
    IF col < Len(line) /\ IsWord(CharAt(line, col)) THEN skipWord(line, col + 1) ELSE col

\* while (col < line.length && /\s/.test(line[col])) col++
RECURSIVE skipSpace(_, _)
skipSpace(line, col) ==
    IF col < Len(line) /\ IsSpace(CharAt(line, col)) THEN skipSpace(line, col + 1) ELSE col

\* while (col > 0 && /\s/.test(line[col])) col--
RECURSIVE backSpace(_, _)
backSpace(line, col) ==
    IF col > 0 /\ IsSpace(CharAt(line, col)) THEN backSpace(line, col - 1) ELSE col

\* while (col > 0 && /\w/.test(line[col - 1])) col--
RECURSIVE backWord(_, _)
backWord(line, col) ==
    IF col > 0 /\ IsWord(CharAt(line, col - 1)) THEN backWord(line, col - 1) ELSE col

\* while (col < line.length - 1 && /\w/.test(line[col + 1])) col++
RECURSIVE endWord(_, _)
endWord(line, col) ==
    IF col < Len(line) - 1 /\ IsWord(CharAt(line, col + 1)) THEN endWord(line, col + 1) ELSE col

moveWordForward(e) ==
    LET line == getCurrentLine(e)
        col == skipSpace(line, skipWord(line, e.cursor.col))
    IN  IF col >= Len(line) /\ e.cursor.line < Len(e.lines) - 1
        THEN LET newLine == e.lines[e.cursor.line + 2]
             IN  [e EXCEPT !.cursor = [line |-> e.cursor.line + 1,
                                       col |-> skipSpace(newLine, 0)]]
        ELSE [e EXCEPT !.cursor.col = Min(col, Max(0, Len(line) - 1))]

moveWordBackward(e) ==
    LET line == getCurrentLine(e)
        c0 == e.cursor.col
        c1 == IF c0 > 0 THEN c0 - 1 ELSE c0
    IN  [e EXCEPT !.cursor.col = backWord(line, backSpace(line, c1))]

moveToEndOfWord(e) ==
    LET line == getCurrentLine(e)
        c0 == e.cursor.col
        c1 == IF c0 < Len(line) - 1 THEN c0 + 1 ELSE c0
        c3 == endWord(line, skipSpace(line, c1))
    IN  [e EXCEPT !.cursor.col = Min(c3, Max(0, Len(line) - 1))]

\* -------------------------------------------------------- insert edits

insertText(e, text) ==
    LET line == getCurrentLine(e)
        col == e.cursor.col
        e1 == setCurrentLine(e, substring(line, 0, col) \o text \o substringFrom(line, col))
    IN  [e1 EXCEPT !.cursor.col = col + Len(text)]

insertNewline(e) ==
    LET line == getCurrentLine(e)
        col == e.cursor.col
        e1 == setCurrentLine(e, substring(line, 0, col))
    IN  [e1 EXCEPT !.lines = splice(e1.lines, e.cursor.line + 1, 0, <<substringFrom(line, col)>>),
                   !.cursor = [line |-> e.cursor.line + 1, col |-> 0]]

backspace(e) ==
    LET col == e.cursor.col
        line == getCurrentLine(e)
    IN  IF col > 0
        THEN [setCurrentLine(e, substring(line, 0, col - 1) \o substringFrom(line, col))
                EXCEPT !.cursor.col = col - 1]
        ELSE IF e.cursor.line > 0
        THEN LET prevLine == e.lines[e.cursor.line]
                 e1 == [e EXCEPT !.lines = splice(e.lines, e.cursor.line, 1, <<>>),
                                 !.cursor = [line |-> e.cursor.line - 1, col |-> Len(prevLine)]]
             IN  setCurrentLine(e1, prevLine \o line)
        ELSE e

\* ------------------------------------------- edit and register operations

\* deleteChar leaving the register as it was
deleteChar_keepsRegister(e) ==
    LET line == getCurrentLine(e)
        col == e.cursor.col
    IN  IF col < Len(line)
        THEN reclamp(setCurrentLine(e, substring(line, 0, col) \o substringFrom(line, col + 1)))
        ELSE e

deleteChar(e) ==
    LET line == getCurrentLine(e)
        col == e.cursor.col
    IN  IF col < Len(line)
        THEN reclamp([setCurrentLine(e, substring(line, 0, col) \o substringFrom(line, col + 1))
                        EXCEPT !.registers[DQ] = <<CharAt(line, col)>>])
        ELSE e

deleteCharBefore(e) ==
    LET line == getCurrentLine(e)
        col == e.cursor.col
    IN  IF col > 0
        THEN [setCurrentLine(e, substring(line, 0, col - 1) \o substringFrom(line, col))
                EXCEPT !.registers[DQ] = <<CharAt(line, col - 1)>>,
                       !.cursor.col = col - 1]
        ELSE e

\* deleteLine without the collapse of an emptied buffer to one empty line
deleteLine_noCollapse(e, count) ==
    LET startLine == e.cursor.line
        endLine == Min(startLine + count, Len(e.lines))
        deleted == SubSeq(e.lines, startLine + 1, endLine)
        rest == splice(e.lines, startLine, endLine - startLine, <<>>)
        e1 == [e EXCEPT !.lines = rest,
                        !.registers[DQ] = joinNL(deleted) \o <<NL>>]
        e2 == [e1 EXCEPT !.cursor.line = Min(e1.cursor.line, Len(e1.lines) - 1)]
    IN  reclamp(e2)

deleteLine(e, count) ==
    LET startLine == e.cursor.line
        endLine == Min(startLine + count, Len(e.lines))
        deleted == SubSeq(e.lines, startLine + 1, endLine)
        rest == splice(e.lines, startLine, endLine - startLine, <<>>)
        spliced == [e EXCEPT !.lines = rest,
                             !.registers[DQ] = joinNL(deleted) \o <<NL>>]
        e1 == IF Len(rest) = 0 THEN assignLines(spliced, << <<>> >>) ELSE spliced
        e2 == [e1 EXCEPT !.cursor.line = Min(e1.cursor.line, Len(e1.lines) - 1)]
    IN  reclamp(e2)

\* yankLine taking one line too many
yankLine_oneMore(e, count) ==
    LET startLine == e.cursor.line
        endLine == Min(startLine + count + 1, Len(e.lines))
        yanked == SubSeq(e.lines, startLine + 1, endLine)
    IN  [e EXCEPT !.registers[DQ] = joinNL(yanked) \o <<NL>>,
                  !.message = ToString(count) \o " line(s) yanked"]

yankLine(e, count) ==
    LET startLine == e.cursor.line
        endLine == Min(startLine + count, Len(e.lines))
        yanked == SubSeq(e.lines, startLine + 1, endLine)
    IN  [e EXCEPT !.registers[DQ] = joinNL(yanked) \o <<NL>>,
                  !.message = ToString(count) \o " line(s) yanked"]

changeLine(e) ==
    [setCurrentLine(e, <<>>) EXCEPT !.cursor.col = 0, !.mode = "insert"]

\* one pass of the loop of deleteWord
deleteWordOnce(e) ==
    LET line == getCurrentLine(e)
        startCol == e.cursor.col
        endCol == skipSpace(line, skipWord(line, startCol))
    IN  IF endCol > startCol
        THEN [setCurrentLine(e, substring(line, 0, startCol) \o substringFrom(line, endCol))
                EXCEPT !.registers[DQ] = substring(line, startCol, endCol)]
        ELSE e

RECURSIVE deleteWordLoop(_, _)
deleteWordLoop(e, n) ==
    IF n <= 0 THEN e
    ELSE LET x == deleteWordOnce(e) IN IF x = e THEN e ELSE deleteWordLoop(x, n - 1)

deleteWord(e, count) == reclamp(deleteWordLoop(e, count))

changeWord(e) ==
    LET line == getCurrentLine(e)
        startCol == e.cursor.col
        endCol == skipWord(line, startCol)
    IN  [setCurrentLine(e, substring(line, 0, startCol) \o substringFrom(line, endCol))
           EXCEPT !.registers[DQ] = substring(line, startCol, endCol),
                  !.mode = "insert"]

deleteToEnd(e) ==
    LET line == getCurrentLine(e)
        col == e.cursor.col
    IN  reclamp([setCurrentLine(e, substring(line, 0, col))
                   EXCEPT !.registers[DQ] = substringFrom(line, col)])

deleteInQuotes(e, quote) ==
    LET line == getCurrentLine(e)
        col == e.cursor.col
        s0 == lastIndexOf(line, <<quote>>, col)
        e0 == indexOf(line, <<quote>>, col + 1)
        retry == s0 = -1 \/ e0 = -1
        start == IF retry THEN indexOf(line, <<quote>>, 0) ELSE s0
        end == IF retry THEN indexOf(line, <<quote>>, start + 1) ELSE e0
    IN  IF start # -1 /\ end # -1 /\ start < end
        THEN [setCurrentLine(e, substring(line, 0, start + 1) \o substringFrom(line, end))
                EXCEPT !.registers[DQ] = substring(line, start + 1, end),
                       !.cursor.col = start + 1]
        ELSE e

changeInQuotes(e, quote) == [deleteInQuotes(e, quote) EXCEPT !.mode = "insert"]

\* paste putting whole lines at the cursor line whatever the position
paste_atCursorLine(e, position) ==
    LET text == e.registers[DQ]
    IN  IF Len(text) = 0 THEN e
        ELSE IF text[Len(text)] = NL
        THEN LET ls == splitNL(SubSeq(text, 1, Len(text) - 1))
                 insertLine == e.cursor.line
             IN  [e EXCEPT !.lines = splice(e.lines, insertLine, 0, ls),
                           !.cursor = [line |-> insertLine, col |-> 0]]
        ELSE LET line == getCurrentLine(e)
                 col == IF position = "after" THEN e.cursor.col + 1 ELSE e.cursor.col
             IN  [setCurrentLine(e, substring(line, 0, col) \o text \o substringFrom(line, col))
                    EXCEPT !.cursor.col = col + Len(text) - 1]

\* paste putting characters at the cursor column whatever the position
paste_atCursorCol(e, position) ==
    LET text == e.registers[DQ]
    IN  IF Len(text) = 0 THEN e
        ELSE IF text[Len(text)] = NL
        THEN LET ls == splitNL(SubSeq(text, 1, Len(text) - 1))
                 insertLine == IF position = "after" THEN e.cursor.line + 1 ELSE e.cursor.line
             IN  [e EXCEPT !.lines = splice(e.lines, insertLine, 0, ls),
                           !.cursor = [line |-> insertLine, col |-> 0]]
        ELSE LET line == getCurrentLine(e)
                 col == e.cursor.col
             IN  [setCurrentLine(e, substring(line, 0, col) \o text \o substringFrom(line, col))
                    EXCEPT !.cursor.col = col + Len(text) - 1]

paste(e, position) ==
    LET text == e.registers[DQ]
    IN  IF Len(text) = 0 THEN e
        ELSE IF text[Len(text)] = NL
        THEN LET ls == splitNL(SubSeq(text, 1, Len(text) - 1))
                 insertLine == IF position = "after" THEN e.cursor.line + 1 ELSE e.cursor.line
             IN  [e EXCEPT !.lines = splice(e.lines, insertLine, 0, ls),
                           !.cursor = [line |-> insertLine, col |-> 0]]
        ELSE LET line == getCurrentLine(e)
                 col == IF position = "after" THEN e.cursor.col + 1 ELSE e.cursor.col
             IN  [setCurrentLine(e, substring(line, 0, col) \o text \o substringFrom(line, col))
                    EXCEPT !.cursor.col = col + Len(text) - 1]

\* String.prototype.trimStart
trimStart(str) == substringFrom(str, skipSpace(str, 0))

joinLines(e) ==
    IF e.cursor.line < Len(e.lines) - 1
    THEN LET currentLine == getCurrentLine(e)
             nextLine == trimStart(e.lines[e.cursor.line + 2])
             e1 == setCurrentLine(e, currentLine \o <<" ">> \o nextLine)
         IN  [e1 EXCEPT !.lines = splice(e1.lines, e.cursor.line + 1, 1, <<>>)]
    ELSE e

\* ------------------------------------------------------------ selection

\* updateSelection leaving the selection where it was
updateSelection_stale(e) == e

updateSelection(e) ==
    IF e.selection # null
    THEN [e EXCEPT !.selection = <<[start |-> e.selection[1].start, end |-> e.cursor]>>]
    ELSE e

\* normalizeSelection returning the selection as it is
normalizeSelection_asIs(sel) == sel

normalizeSelection(sel) ==
    IF \/ sel.start.line > sel.end.line
       \/ (sel.start.line = sel.end.line /\ sel.start.col > sel.end.col)
    THEN [start |-> sel.end, end |-> sel.start]
    ELSE sel

\* the text of a selection that spans several lines (deleteSelection, yankSelection)
RECURSIVE interior(_, _, _)
interior(ls, i, endLine) ==
    IF i < endLine THEN <<NL>> \o ls[i + 1] \o interior(ls, i + 1, endLine) ELSE <<>>

selectedText(e, start, end) ==
    IF start.line = end.line
    THEN substring(e.lines[start.line + 1], start.col, end.col + 1)
    ELSE substringFrom(e.lines[start.line + 1], start.col)
           \o interior(e.lines, start.line + 1, end.line)
           \o <<NL>> \o substring(e.lines[end.line + 1], 0, end.col + 1)

deleteSelection(e) ==
    IF e.selection = null THEN e
    ELSE LET sel == normalizeSelection(e.selection[1])
             start == sel.start
             end == sel.end
             startLine == e.lines[start.line + 1]
             endLine == e.lines[end.line + 1]
             e1 == IF start.line = end.line
                   THEN [e EXCEPT !.registers[DQ] = selectedText(e, start, end),
                                  !.lines[start.line + 1] =
                                      substring(startLine, 0, start.col)
                                        \o substringFrom(startLine, end.col + 1)]
                   ELSE [e EXCEPT !.registers[DQ] = selectedText(e, start, end),
                                  !.lines = splice(
                                      [e.lines EXCEPT ![start.line + 1] =
                                          substring(startLine, 0, start.col)
                                            \o substringFrom(endLine, end.col + 1)],
                                      start.line + 1, end.line - start.line, <<>>)]
         IN  reclamp(assignSelection(assignCursor(e1, start), null))

yankSelection(e) ==
    IF e.selection = null THEN e
    ELSE LET sel == normalizeSelection(e.selection[1])
         IN  [e EXCEPT !.registers[DQ] = selectedText(e, sel.start, sel.end)]

\* --------------------------------------------------------------- search

\* searchNext going to the top of the buffer when nothing is found
searchNext_topOnFail(e) ==
    IF Len(e.lastSearch) = 0 THEN e
    ELSE LET pattern == toLowerCase(e.lastSearch)
             n == Len(e.lines)
             lineIdx(i) == (e.cursor.line + i) % n
             idx(i) == indexOf(toLowerCase(e.lines[lineIdx(i) + 1]), pattern,
                               IF i = 0 THEN e.cursor.col + 1 ELSE 0)
             hits == {i \in 0..(n - 1) : idx(i) # -1}
         IN  IF hits = {} THEN [e EXCEPT !.cursor = [line |-> 0, col |-> 0]]
             ELSE LET i == CHOOSE h \in hits : \A j \in hits : h <= j
                  IN  assignCursor(e, [line |-> lineIdx(i), col |-> idx(i)])

searchNext(e) ==
    IF Len(e.lastSearch) = 0 THEN e
    ELSE LET pattern == toLowerCase(e.lastSearch)
             n == Len(e.lines)
             lineIdx(i) == (e.cursor.line + i) % n
             idx(i) == indexOf(toLowerCase(e.lines[lineIdx(i) + 1]), pattern,
                               IF i = 0 THEN e.cursor.col + 1 ELSE 0)
             hits == {i \in 0..(n - 1) : idx(i) # -1}
         IN  IF hits = {} THEN e
             ELSE LET i == CHOOSE h \in hits : \A j \in hits : h <= j
                  IN  assignCursor(e, [line |-> lineIdx(i), col |-> idx(i)])

searchPrev(e) ==
    IF Len(e.lastSearch) = 0 THEN e
    ELSE LET pattern == toLowerCase(e.lastSearch)
             n == Len(e.lines)
             lineIdx(i) == (e.cursor.line - i + n) % n
             idx(i) == LET line == toLowerCase(e.lines[lineIdx(i) + 1])
                       IN  lastIndexOf(line, pattern,
                                       IF i = 0 THEN e.cursor.col - 1 ELSE Len(line))
             hits == {i \in 0..(n - 1) : idx(i) # -1}
         IN  IF hits = {} THEN e
             ELSE LET i == CHOOSE h \in hits : \A j \in hits : h <= j
                  IN  assignCursor(e, [line |-> lineIdx(i), col |-> idx(i)])

searchWordUnderCursor(e) ==
    LET line == getCurrentLine(e)
        col == e.cursor.col
        start == backWord(line, col)
        end == skipWord(line, col)
        word == substring(line, start, end)
    IN  IF Len(word) > 0 THEN searchNext([e EXCEPT !.lastSearch = word]) ELSE e


\* --------------------------------------------------------- command line

\* String.prototype.split(sep); split('') gives the characters
RECURSIVE split(_, _)
split(str, sep) ==
    IF Len(sep) = 0 THEN [i \in 1..Len(str) |-> <<str[i]>>]
    ELSE LET i == indexOf(str, sep, 0)
         IN  IF i = -1 THEN <<str>>
             ELSE <<substring(str, 0, i)>> \o split(substringFrom(str, i + Len(sep)), sep)

\* Array.prototype.join(sep)
RECURSIVE join(_, _)
join(parts, sep) ==
    IF Len(parts) = 0 THEN <<>>
    ELSE IF Len(parts) = 1 THEN parts[1]
    ELSE parts[1] \o sep \o join(Tail(parts), sep)

\* the replacement text of String.prototype.replace with a string pattern:
\* $$ is a dollar sign, $& the matched text, $` the text before the match
\* and $' the text after it; any other $ stands for itself
RECURSIVE substitution(_, _, _, _)
substitution(repl, matched, before, after) ==
    IF Len(repl) = 0 THEN <<>>
    ELSE IF repl[1] = "$" /\ Len(repl) >= 2 /\ repl[2] \in {"$", "&", "`", "'"}
    THEN (CASE repl[2] = "$" -> <<"$">>
            [] repl[2] = "&" -> matched
            [] repl[2] = "`" -> before
            [] repl[2] = "'" -> after)
           \o substitution(SubSeq(repl, 3, Len(repl)), matched, before, after)
    ELSE <<repl[1]>> \o substitution(Tail(repl), matched, before, after)

\* String.prototype.replace(search, replace) with a string pattern
replace(str, search, repl) ==
    LET i == indexOf(str, search, 0)
    IN  IF i = -1 THEN str
        ELSE substring(str, 0, i)
               \o substitution(repl, search, substring(str, 0, i),
                               substringFrom(str, i + Len(search)))
               \o substringFrom(str, i + Len(search))

\* executeSubstitution taking a command of two segments as a deletion
executeSubstitution_twoSegments(e, cmd) ==
    LET parts == split(cmd, <<"/">>)
    IN  IF Len(parts) >= 2
        THEN LET search == parts[2]
                 repl == IF Len(parts) >= 3 THEN parts[3] ELSE <<>>
                 flags == IF Len(parts) >= 4 THEN parts[4] ELSE <<>>
                 line == getCurrentLine(e)
             IN  IF indexOf(flags, <<"g">>, 0) # -1
                 THEN setCurrentLine(e, join(split(line, search), repl))
                 ELSE setCurrentLine(e, replace(line, search, repl))
        ELSE e

executeSubstitution(e, cmd) ==
    LET parts == split(cmd, <<"/">>)
    IN  IF Len(parts) >= 3
        THEN LET search == parts[2]
                 repl == parts[3]
                 flags == IF Len(parts) >= 4 THEN parts[4] ELSE <<>>
                 line == getCurrentLine(e)
             IN  IF indexOf(flags, <<"g">>, 0) # -1
                 THEN setCurrentLine(e, join(split(line, search), repl))
                 ELSE setCurrentLine(e, replace(line, search, repl))
        ELSE e

\* /^\d+$/.test(command)
AllDigits(str) == Len(str) > 0 /\ \A i \in 1..Len(str) : str[i] \in Digits09

executeCommand(e) ==
    LET cmd == e.commandBuffer
        command == substringFrom(cmd, 1)
        e1 == IF Len(cmd) > 0 /\ cmd[1] = "/"
              THEN IF Len(command) > 0
                   THEN searchNext([e EXCEPT !.lastSearch = command])
                   ELSE e
              ELSE IF Len(cmd) > 0 /\ cmd[1] = ":"
              THEN IF command = <<"w">> \/ command = <<"w", "r", "i", "t", "e">>
                   THEN [e EXCEPT !.message = "File saved (simulated)"]
                   ELSE IF command = <<"q">> \/ command = <<"q", "u", "i", "t">>
                   THEN [e EXCEPT !.message = "Would quit (simulated)"]
                   ELSE IF command = <<"w", "q">> \/ command = <<"x">>
                   THEN [e EXCEPT !.message = "Saved and quit (simulated)"]
                   ELSE IF AllDigits(command)
                   THEN reclamp([e EXCEPT !.cursor.line =
                            Max(0, Min(parseInt(command) - 1, Len(e.lines) - 1))])
                   ELSE IF substring(command, 0, 2) = <<"s", "/">>
                   THEN executeSubstitution(e, command)
                   ELSE e
              ELSE e
    IN  [e1 EXCEPT !.mode = "normal", !.commandBuffer = <<>>]

\* ------------------------------------------------------------- handlers

\* keys whose KeyboardEvent.key is longer than one character
NamedKeys == {"Escape", "Enter", "Backspace", "Delete", "Tab", "Shift",
              "ArrowLeft", "ArrowRight", "ArrowUp", "ArrowDown"}

\* key.length === 1
IsChar(key) == key \notin NamedKeys

\* what a handler leaves: the engine, the value returned, whether the
\* handler ended in notifyChange()
Result(e, r, n) == [e |-> e, ret |-> r, notified |-> n]

\* the handle dropped without clearTimeout
clearCommandTimeout_forgets(e) == [e EXCEPT !.commandTimeout = 0]

\* clearTimeout(this.commandTimeout); this.commandTimeout = null
clearCommandTimeout(e) ==
    IF e.commandTimeout # 0
    THEN [e EXCEPT !.timers = {t \in e.timers : t.id # e.commandTimeout},
                   !.commandTimeout = 0]
    ELSE e

\* this.commandTimeout = window.setTimeout(..., 1000): the browser returns an
\* id it has not returned before; here, the least id that no pending timer
\* has and that is not the handle the engine held when the key arrived
setCommandTimeout(e, key, held) ==
    LET used == {t.id : t \in e.timers} \cup {held}
        id == CHOOSE i \in 1..(Cardinality(used) + 1) : i \notin used
    IN  [e EXCEPT !.timers = e.timers \cup {[id |-> id, prefix |-> key, stale |-> FALSE]},
                  !.commandTimeout = id]

PrefixKeys == {"d", "c", "y", "g", "f", "F", "t", "T", "r"}

moveLeft(e) == [e EXCEPT !.cursor.col = Max(0, e.cursor.col - 1)]
moveDown(e) == [e EXCEPT !.cursor.line = Min(Len(e.lines) - 1, e.cursor.line + 1)]
moveUp(e) == [e EXCEPT !.cursor.line = Max(0, e.cursor.line - 1)]
moveRight(e) ==
    [e EXCEPT !.cursor.col = Min(Max(0, Len(getCurrentLine(e)) - 1), e.cursor.col + 1)]

\* the body of the for loop of a counted single-character command
loopBody(e, key) ==
    CASE key \in {"h", "ArrowLeft"} -> moveLeft(e)
      [] key \in {"j", "ArrowDown"} -> moveDown(e)
      [] key \in {"k", "ArrowUp"} -> moveUp(e)
      [] key \in {"l", "ArrowRight"} -> moveRight(e)
      [] key = "w" -> moveWordForward(e)
      [] key = "b" -> moveWordBackward(e)
      [] key = "e" -> moveToEndOfWord(e)
      [] key = "x" -> deleteChar(e)
      [] key = "X" -> deleteCharBefore(e)

\* the loop run once whatever the count
Repeat_once(e, key, n) == loopBody(e, key)

\* for (let i = 0; i < count; i++) body: the body is a function of the
\* engine, so once a pass leaves the engine as it was the remaining passes
\* do too
RECURSIVE Repeat(_, _, _)
Repeat(e, key, n) ==
    IF n <= 0 THEN e
    ELSE LET x == loopBody(e, key) IN IF x = e THEN e ELSE Repeat(x, key, n - 1)

\* the case u leaving no message
undo_silent(e) == e

\* the case u of the switch: undo is not implemented
undo(e) == [e EXCEPT !.message = "Undo not available in this trainer"]

\* the switch over single-character commands of handleNormalMode
NormalSwitchKeys ==
    {"h", "ArrowLeft", "j", "ArrowDown", "k", "ArrowUp", "l", "ArrowRight",
     "w", "b", "e", "0", "$", "^", "G", "i", "a", "A", "I", "o", "O", "v", "V",
     "x", "X", "s", "S", "D", "C", "p", "P", "u", "J", ":", "/", "n", "N", "*",
     "Escape"}

normalSwitch(e, key, count) ==
    CASE key \in {"h", "ArrowLeft"} -> Repeat(e, key, count)
      [] key \in {"j", "ArrowDown"} -> reclamp(Repeat(e, key, count))
      [] key \in {"k", "ArrowUp"} -> reclamp(Repeat(e, key, count))
      [] key \in {"l", "ArrowRight"} -> Repeat(e, key, count)
      [] key = "w" -> Repeat(e, key, count)
      [] key = "b" -> Repeat(e, key, count)
      [] key = "e" -> Repeat(e, key, count)
      [] key = "0" -> [e EXCEPT !.cursor.col = 0]
      [] key = "$" -> [e EXCEPT !.cursor.col = Max(0, Len(getCurrentLine(e)) - 1)]
      [] key = "^" -> LET firstNonSpace == searchNonSpace(getCurrentLine(e))
                      IN  [e EXCEPT !.cursor.col =
                              IF firstNonSpace = -1 THEN 0 ELSE firstNonSpace]
      [] key = "G" -> reclamp([e EXCEPT !.cursor.line = Len(e.lines) - 1])
      [] key = "i" -> [e EXCEPT !.mode = "insert"]
      [] key = "a" -> [e EXCEPT !.mode = "insert",
                                !.cursor.col = Min(Len(getCurrentLine(e)), e.cursor.col + 1)]
      [] key = "A" -> [e EXCEPT !.mode = "insert", !.cursor.col = Len(getCurrentLine(e))]
      [] key = "I" -> LET firstChar == searchNonSpace(getCurrentLine(e))
                      IN  [e EXCEPT !.mode = "insert",
                                    !.cursor.col = IF firstChar = -1 THEN 0 ELSE firstChar]
      [] key = "o" -> [e EXCEPT !.lines = splice(e.lines, e.cursor.line + 1, 0, << <<>> >>),
                                !.cursor = [line |-> e.cursor.line + 1, col |-> 0],
                                !.mode = "insert"]
      [] key = "O" -> [e EXCEPT !.lines = splice(e.lines, e.cursor.line, 0, << <<>> >>),
                                !.cursor.col = 0,
                                !.mode = "insert"]
      [] key = "v" -> assignSelection([e EXCEPT !.mode = "visual"],
                                      <<[start |-> e.cursor, end |-> e.cursor]>>)
      [] key = "V" -> assignSelection([e EXCEPT !.mode = "visual"],
                                      <<[start |-> [line |-> e.cursor.line, col |-> 0],
                                         end |-> [line |-> e.cursor.line,
                                                  col |-> Len(getCurrentLine(e))]]>>)
      [] key = "x" -> Repeat(e, key, count)
      [] key = "X" -> Repeat(e, key, count)
      [] key = "s" -> [deleteChar(e) EXCEPT !.mode = "insert"]
      [] key = "S" -> [setCurrentLine(e, <<>>) EXCEPT !.cursor.col = 0, !.mode = "insert"]
      [] key = "D" -> deleteToEnd(e)
      [] key = "C" -> [deleteToEnd(e) EXCEPT !.mode = "insert"]
      [] key = "p" -> paste(e, "after")
      [] key = "P" -> paste(e, "before")
      [] key = "u" -> undo(e)
      [] key = "J" -> joinLines(e)
      [] key = ":" -> [e EXCEPT !.mode = "command", !.commandBuffer = <<":">>]
      [] key = "/" -> [e EXCEPT !.mode = "command", !.commandBuffer = <<"/">>]
      [] key = "n" -> searchNext(e)
      [] key = "N" -> searchPrev(e)
      [] key = "*" -> searchWordUnderCursor(e)
      [] key = "Escape" -> [assignSelection(e, null) EXCEPT !.commandBuffer = <<>>]

handleNormalMode(e0, key) ==
    LET e1 == clearCommandTimeout(e0)
    IN  IF key \in Digits19 \/ (Len(e1.countBuffer) > 0 /\ key \in Digits09)
        THEN Result([e1 EXCEPT !.countBuffer = e1.countBuffer \o <<key>>,
                               !.commandBuffer = e1.countBuffer \o <<key>>], TRUE, TRUE)
        ELSE
        LET parsed == parseInt(e1.countBuffer)
            count == IF parsed = 0 THEN 1 ELSE parsed
            e == [e1 EXCEPT !.countBuffer = <<>>]
            buffer == e.commandBuffer \o <<key>>
            done(x) == Result([x EXCEPT !.commandBuffer = <<>>], TRUE, TRUE)
        IN  CASE buffer = <<"d", "d">> -> done(deleteLine(e, count))
              [] buffer = <<"y", "y">> -> done(yankLine(e, count))
              [] buffer = <<"c", "c">> -> done(changeLine(e))
              [] buffer = <<"g", "g">> -> done(assignCursor(e, [line |-> 0, col |-> 0]))
              [] buffer = <<"d", "w">> -> done(deleteWord(e, count))
              [] buffer = <<"c", "w">> -> done(changeWord(e))
              [] buffer \in {<<"d", "i", DQ>>, <<"d", "i", SQ>>} ->
                    done(deleteInQuotes(e, buffer[3]))
              [] buffer \in {<<"c", "i", DQ>>, <<"c", "i", SQ>>} ->
                    done(changeInQuotes(e, buffer[3]))
              [] OTHER ->
                 IF key \in PrefixKeys /\ buffer = <<key>>
                 THEN Result(setCommandTimeout([e EXCEPT !.commandBuffer = <<key>>], key,
                                               e0.commandTimeout),
                             TRUE, TRUE)
                 ELSE IF e.commandBuffer = <<"r">> /\ IsChar(key)
                 THEN LET line == getCurrentLine(e)
                          col == e.cursor.col
                      IN  done(setCurrentLine(e, substring(line, 0, col) \o <<key>>
                                                   \o substringFrom(line, col + 1)))
                 ELSE IF e.commandBuffer = <<"f">> /\ IsChar(key)
                 THEN LET idx == indexOf(getCurrentLine(e), <<key>>, e.cursor.col + 1)
                      IN  done(IF idx # -1 THEN [e EXCEPT !.cursor.col = idx] ELSE e)
                 ELSE IF e.commandBuffer = <<"F">> /\ IsChar(key)
                 THEN LET idx == lastIndexOf(getCurrentLine(e), <<key>>, e.cursor.col - 1)
                      IN  done(IF idx # -1 THEN [e EXCEPT !.cursor.col = idx] ELSE e)
                 ELSE LET e2 == [e EXCEPT !.commandBuffer = <<>>]
                      IN  IF key \in NormalSwitchKeys
                          THEN Result(normalSwitch(e2, key, count), TRUE, TRUE)
                          ELSE Result(e2, FALSE, FALSE)

\* Escape leaving insert mode with the cursor where it is
insertEscape_inPlace(e) == [e EXCEPT !.mode = "normal"]

\* case 'Escape' of handleInsertMode
insertEscape(e) == [e EXCEPT !.mode = "normal", !.cursor.col = Max(0, e.cursor.col - 1)]

handleInsertMode(e, key, ctrl) ==
    CASE key = "Escape" -> Result(insertEscape(e), TRUE, TRUE)
      [] key = "Backspace" -> Result(backspace(e), TRUE, TRUE)
      [] key = "Delete" -> Result(deleteChar(e), TRUE, TRUE)
      [] key = "Enter" -> Result(insertNewline(e), TRUE, TRUE)
      [] key = "Tab" -> Result(insertText(e, <<" ", " ">>), TRUE, TRUE)
      [] key = "ArrowLeft" -> Result(moveLeft(e), TRUE, TRUE)
      [] key = "ArrowRight" ->
            Result([e EXCEPT !.cursor.col = Min(Len(getCurrentLine(e)), e.cursor.col + 1)],
                   TRUE, TRUE)
      [] key = "ArrowUp" -> Result(reclamp(moveUp(e)), TRUE, TRUE)
      [] key = "ArrowDown" -> Result(reclamp(moveDown(e)), TRUE, TRUE)
      [] OTHER -> IF IsChar(key) /\ ~ctrl
                  THEN Result(insertText(e, <<key>>), TRUE, TRUE)
                  ELSE Result(e, FALSE, FALSE)

VisualSwitchKeys ==
    {"Escape", "h", "ArrowLeft", "j", "ArrowDown", "k", "ArrowUp", "l", "ArrowRight",
     "w", "b", "e", "0", "$", "d", "x", "y", "c"}

visualSwitch(e, key) ==
    CASE key = "Escape" -> assignSelection([e EXCEPT !.mode = "normal"], null)
      [] key \in {"h", "ArrowLeft"} -> updateSelection(moveLeft(e))
      [] key \in {"j", "ArrowDown"} -> updateSelection(reclamp(moveDown(e)))
      [] key \in {"k", "ArrowUp"} -> updateSelection(reclamp(moveUp(e)))
      [] key \in {"l", "ArrowRight"} ->
            updateSelection([e EXCEPT !.cursor.col =
                                Min(Len(getCurrentLine(e)), e.cursor.col + 1)])
      [] key = "w" -> updateSelection(moveWordForward(e))
      [] key = "b" -> updateSelection(moveWordBackward(e))
      [] key = "e" -> updateSelection(moveToEndOfWord(e))
      [] key = "0" -> updateSelection([e EXCEPT !.cursor.col = 0])
      [] key = "$" -> updateSelection([e EXCEPT !.cursor.col = Len(getCurrentLine(e))])
      [] key \in {"d", "x"} -> [deleteSelection(e) EXCEPT !.mode = "normal"]
      [] key = "y" -> assignSelection([yankSelection(e) EXCEPT !.mode = "normal"], null)
      [] key = "c" -> [deleteSelection(e) EXCEPT !.mode = "insert"]

handleVisualMode(e, key) ==
    IF key \in VisualSwitchKeys
    THEN Result(visualSwitch(e, key), TRUE, TRUE)
    ELSE Result(e, FALSE, FALSE)

\* Backspace leaving command mode one character early
commandBackspace_early(e) ==
    IF Len(e.commandBuffer) > 2
    THEN [e EXCEPT !.commandBuffer = SubSeq(e.commandBuffer, 1, Len(e.commandBuffer) - 1)]
    ELSE [e EXCEPT !.mode = "normal", !.commandBuffer = <<>>]

\* case 'Backspace' of handleCommandMode
commandBackspace(e) ==
    IF Len(e.commandBuffer) > 1
    THEN [e EXCEPT !.commandBuffer = SubSeq(e.commandBuffer, 1, Len(e.commandBuffer) - 1)]
    ELSE [e EXCEPT !.mode = "normal", !.commandBuffer = <<>>]

handleCommandMode(e, key) ==
    CASE key = "Escape" ->
            Result([e EXCEPT !.mode = "normal", !.commandBuffer = <<>>], TRUE, TRUE)
      [] key = "Enter" -> Result(executeCommand(e), TRUE, TRUE)
      [] key = "Backspace" -> Result(commandBackspace(e), TRUE, TRUE)
      [] OTHER ->
            IF IsChar(key)
            THEN Result([e EXCEPT !.commandBuffer = e.commandBuffer \o <<key>>], TRUE, TRUE)
            ELSE Result(e, TRUE, TRUE)

handleKeyDown(e, key, ctrl) ==
    CASE e.mode = "normal" -> handleNormalMode(e, key)
      [] e.mode = "insert" -> handleInsertMode(e, key, ctrl)
      [] e.mode = "visual" -> handleVisualMode(e, key)
      [] e.mode = "command" -> handleCommandMode(e, key)

\* setContent leaving the selection in place
setContent_keepsSelection(e, content) ==
    [e EXCEPT !.lines = content,
              !.cursor = [line |-> 0, col |-> 0],
              !.mode = "normal",
              !.commandBuffer = <<>>]

\* setContent emptying the register as well
setContent_clearsRegister(e, content) ==
    LET e1 == assignCursor(assignLines(e, content), [line |-> 0, col |-> 0])
    IN  [assignSelection([e1 EXCEPT !.mode = "normal"], null)
            EXCEPT !.commandBuffer = <<>>, !.registers[DQ] = <<>>]

\* setContent(lines)
setContent(e, content) ==
    LET e1 == assignCursor(assignLines(e, content), [line |-> 0, col |-> 0])
    IN  [assignSelection([e1 EXCEPT !.mode = "normal"], null) EXCEPT !.commandBuffer = <<>>]

\* setCursor(cursor)
setCursor(e, c) == assignCursor(e, clampCursor(e, c))

\* the timer callback notifying without clearing the buffer
commandTimeoutExpired_keepsBuffer(e, t) == [e EXCEPT !.timers = e.timers \ {t}]

\* the callback given to setTimeout, run for the pending timer t
commandTimeoutExpired(e, t) ==
    [e EXCEPT !.timers = e.timers \ {t}, !.commandBuffer = <<>>]


\* ------------------------------------------------------- the state machine

\* the engine held in the variables
Engine ==
    [lines |-> lines, cursor |-> cursor, mode |-> mode, selection |-> selection,
     commandBuffer |-> commandBuffer, registers |-> registers,
     lastSearch |-> lastSearch, message |-> message, countBuffer |-> countBuffer,
     commandTimeout |-> commandTimeout, timers |-> timers, shed |-> NothingShed]

\* the variables take the engine e
Becomes(e) ==
    /\ lines' = e.lines
    /\ cursor' = e.cursor
    /\ mode' = e.mode
    /\ selection' = e.selection
    /\ commandBuffer' = e.commandBuffer
    /\ registers' = e.registers
    /\ lastSearch' = e.lastSearch
    /\ message' = e.message
    /\ countBuffer' = e.countBuffer
    /\ commandTimeout' = e.commandTimeout
    /\ timers' = e.timers

\* a timer that was pending before a key event and is still pending after it
\* has outlived a key event
Outlived(before, after) ==
    [after EXCEPT !.timers =
        {IF t \in before.timers THEN [t EXCEPT !.stale = TRUE] ELSE t : t \in after.timers}]

\* texts, written as sequences of characters
T_ab == <<"a", "b">>
T_a_b == <<"a", " ", "b">>
T_sp == <<" ">>
T_a == <<"a">>
T_ba == <<"b", "a">>
T_empty == <<>>

\* the contents an engine is constructed with
InitialContents ==
    { <<T_empty>>, <<T_ab>>, <<T_a_b, T_sp>>, <<T_a, T_empty, T_ba>> }

\* the contents a lesson step loads
LoadContents == { <<T_ab, T_a>> }

\* the positions a lesson step sets the cursor to
CursorPositions == { [line |-> 1, col |-> 1], [line |-> 0, col |-> 2] }

\* the keys typed in each mode
NormalKeys == NormalSwitchKeys \cup PrefixKeys \cup {"1", "2", "Shift", "z", "Enter", "Backspace"}
InsertKeys == {"Escape", "Backspace", "Delete", "Enter", "Tab", "Shift", "a", " ",
               "ArrowLeft", "ArrowRight", "ArrowUp", "ArrowDown"}
VisualKeys == VisualSwitchKeys \cup {"Shift", "z", "v"}
CommandKeys == {"Escape", "Enter", "Backspace", "Shift", "w", "2", "a", "s", "/"}

StartState(e) ==
    /\ lines = e.lines
    /\ cursor = e.cursor
    /\ mode = e.mode
    /\ selection = e.selection
    /\ commandBuffer = e.commandBuffer
    /\ registers = e.registers
    /\ lastSearch = e.lastSearch
    /\ message = e.message
    /\ countBuffer = e.countBuffer
    /\ commandTimeout = e.commandTimeout
    /\ timers = e.timers
    /\ event = [type |-> "init", key |-> "", after |-> "none"]
    /\ ret = TRUE
    /\ notified = FALSE
    /\ events = 0

Init ==
    /\ \E content \in InitialContents : StartState(constructor(content))
    /\ origin = [e |-> Engine, script |-> <<>>]
    /\ script = <<>>

\* handleKeyDown(e) for a key event with e.key = key, e.ctrlKey = ctrl
KeyDown(key, ctrl) ==
    LET r == handleKeyDown(Engine, key, ctrl)
    IN  /\ Becomes(Outlived(Engine, r.e))
        /\ event' = [type |-> "key", key |-> key, after |-> event.type]
        /\ ret' = r.ret
        /\ notified' = r.notified
        /\ UNCHANGED origin

NormalKey ==
    /\ mode = "normal"
    /\ events < MaxEvents
    /\ \E key \in NormalKeys : KeyDown(key, FALSE)
    /\ events' = events + 1
    /\ UNCHANGED script

InsertKey ==
    /\ mode = "insert"
    /\ events < MaxEvents
    /\ \E key \in InsertKeys, ctrl \in BOOLEAN : KeyDown(key, ctrl)
    /\ events' = events + 1
    /\ UNCHANGED script

VisualKey ==
    /\ mode = "visual"
    /\ events < MaxEvents
    /\ \E key \in VisualKeys : KeyDown(key, FALSE)
    /\ events' = events + 1
    /\ UNCHANGED script

CommandKey ==
    /\ mode = "command"
    /\ events < MaxEvents
    /\ \E key \in CommandKeys : KeyDown(key, FALSE)
    /\ events' = events + 1
    /\ UNCHANGED script

\* a lesson step loads its content
SetContent ==
    /\ events < MaxEvents
    /\ \E content \in LoadContents : Becomes(setContent(Engine, content))
    /\ event' = [type |-> "load", key |-> "", after |-> event.type]
    /\ ret' = TRUE
    /\ notified' = TRUE
    /\ UNCHANGED origin
    /\ events' = events + 1
    /\ UNCHANGED script

\* a lesson step sets its cursor
SetCursor ==
    /\ events < MaxEvents
    /\ \E c \in CursorPositions : Becomes(setCursor(Engine, c))
    /\ event' = [type |-> "cursor", key |-> "", after |-> event.type]
    /\ ret' = TRUE
    /\ notified' = TRUE
    /\ UNCHANGED origin
    /\ events' = events + 1
    /\ UNCHANGED script

\* a pending decay timer expires
TimerExpire ==
    /\ \E t \in timers :
          /\ Becomes(commandTimeoutExpired(Engine, t))
          /\ event' = [type |-> "timer", key |-> t.prefix, after |-> event.type]
    /\ ret' = TRUE
    /\ notified' = TRUE
    /\ UNCHANGED origin
    /\ UNCHANGED <<script, events>>

Next ==
    \/ NormalKey
    \/ InsertKey
    \/ VisualKey
    \/ CommandKey
    \/ SetContent
    \/ SetCursor
    \/ TimerExpire

Spec == Init /\ [][Next]_vars

\* the browser runs the callback of a pending timer once its second has passed
FairSpec == Spec /\ WF_vars(TimerExpire)


\* ------------------------------------------------------- scripted runs
\* An engine is constructed with some content, the cursor is set, and a
\* fixed sequence of keys is typed; the step "Timeout" is a wait of more
\* than a second, in which the pending decay timer expires.

\* the lines of the buffers of scripted runs
ScriptLines == { T_empty, T_a, T_ab, T_a_b }

RECURSIVE Buffers(_)
Buffers(n) ==
    IF n = 1 THEN { <<l>> : l \in ScriptLines }
    ELSE Buffers(n - 1) \cup { b \o <<l>> : b \in {c \in Buffers(n - 1) : Len(c) = n - 1},
                                            l \in ScriptLines }

\* a buffer of five lines
FiveLines == <<T_a, T_ab, T_empty, T_a_b, T_a>>

\* buffers with an upper-case letter and with a repeated word
T_Ab == <<"A", "b">>
T_a_a == <<"a", " ", "a">>
MoreContents == { <<T_Ab, T_a>>, <<T_a_a, T_ab>> }

ScriptContents == Buffers(MaxLines) \cup {FiveLines} \cup MoreContents

\* the cursor positions of a buffer
PositionsOf(content) ==
    { [line |-> l, col |-> c] : l \in 0..(Len(content) - 1), c \in 0..2 }

Script_ddp == <<"d", "d", "p">>
Script_yyp == <<"y", "y", "p">>
Script_ndd(n) == <<n, "d", "d">>
Script_decay == <<"d", "Timeout", "d">>
CountKeys == {"2", "3", "5"}
Script_xP == <<"x", "P">>

\* /pattern, Enter, and then n or N
SearchPatterns == { <<"a">>, <<"b">>, <<"A">>, <<"a", "b">>, <<"c">> }
Script_search(pattern, key) == <<"/">> \o pattern \o <<"Enter", key>>

\* v, some motions, and then d
SelectionMotions ==
    { <<>>, <<"h">>, <<"l">>, <<"j">>, <<"k">>, <<"0">>, <<"$">>, <<"w">>, <<"b">>,
      <<"j", "h">>, <<"k", "$">> }
Script_vd(motions) == <<"v">> \o motions \o <<"d">>

\* :s/search/replace/flags and Enter
Substitutions ==
    { [search |-> <<"a">>, repl |-> <<"b">>, flags |-> <<>>],
      [search |-> <<"a">>, repl |-> <<"b">>, flags |-> <<"g">>],
      [search |-> <<"a">>, repl |-> <<>>, flags |-> <<"g">>],
      [search |-> <<"a", "b">>, repl |-> <<"a">>, flags |-> <<>>],
      [search |-> <<"a">>, repl |-> <<"$", "&">>, flags |-> <<>>],
      [search |-> <<"a">>, repl |-> <<"$", "&">>, flags |-> <<"g">>],
      [search |-> <<"b">>, repl |-> <<"$", "$">>, flags |-> <<>>] }
Script_sub(sub) ==
    <<":", "s", "/">> \o sub.search \o <<"/">> \o sub.repl \o <<"/">> \o sub.flags
        \o <<"Enter">>

\* y, y, and then a command line that is no command, and Enter
MalformedCommands ==
    { <<>>, <<"z">>, <<"s">>, <<"s", "/", "a">>, <<"2", "a">>, <<"w", "w">> }
Script_malformed(command) == <<"y", "y", ":">> \o command \o <<"Enter">>

\* a count and a motion, and the motion again; a count and x or X
CountedMotions == {"h", "j", "k", "l"}
Script_count(n, key) == <<n, key, key>>
Script_zero == <<"0", "l">>
Script_ten == <<"1", "0", "l", "0">>
Script_nx(n, key) == <<n, key>>

Scripts ==
    {Script_ddp, Script_yyp, Script_decay, Script_xP, Script_zero, Script_ten}
        \cup {Script_count(n, key) : n \in CountKeys, key \in CountedMotions}
        \cup {Script_nx(n, key) : n \in CountKeys, key \in {"x", "X"}}
        \cup {Script_sub(sub) : sub \in Substitutions}
        \cup {Script_malformed(command) : command \in MalformedCommands}
        \cup {Script_ndd(n) : n \in CountKeys}
        \cup {Script_search(pattern, key) : pattern \in SearchPatterns, key \in {"n", "N"}}
        \cup {Script_vd(motions) : motions \in SelectionMotions}

ScriptInit ==
    /\ \E content \in ScriptContents :
         \E c \in PositionsOf(content) :
            StartState(setCursor(constructor(content), c))
    /\ script \in Scripts
    /\ origin = [e |-> Engine, script |-> script]

\* the next key of the script is typed
PlayKey ==
    /\ script # <<>>
    /\ Head(script) # "Timeout"
    /\ KeyDown(Head(script), FALSE)
    /\ script' = Tail(script)
    /\ events' = events + 1
    /\ UNCHANGED origin

\* the script waits: the pending decay timer expires
PlayTimeout ==
    /\ script # <<>>
    /\ Head(script) = "Timeout"
    /\ \E t \in timers :
          /\ Becomes(commandTimeoutExpired(Engine, t))
          /\ event' = [type |-> "timer", key |-> t.prefix, after |-> event.type]
    /\ ret' = TRUE
    /\ notified' = TRUE
    /\ script' = Tail(script)
    /\ UNCHANGED <<origin, events>>

ScriptNext == PlayKey \/ PlayTimeout

ScriptSpec == ScriptInit /\ [][ScriptNext]_vars

\* the scripted run of s has typed its first k steps
Played(s, k) == origin.script = s /\ Len(script) = Len(s) - k


\* ------------------------------------------------------------- properties

\* the cursor is on a line of the buffer, at a column its mode allows
ValidCursorIn(ls, c, m) ==
    /\ 0 <= c.line
    /\ c.line < Len(ls)
    /\ 0 <= c.col
    /\ c.col <= IF m = "insert" THEN Len(ls[c.line + 1])
                ELSE Max(0, Len(ls[c.line + 1]) - 1)

\* C1: in every reachable state the cursor is on a line of the buffer, and
\* its column is at most the length of that line in insert mode and at most
\* the index of its last character (0 on an empty line) in the other modes.
C1_CursorInvariant == ValidCursorIn(lines, cursor, mode)

\* the motion keys of the two modes
NormalMotionKeys == {"h", "j", "k", "l", "ArrowLeft", "ArrowDown", "ArrowUp", "ArrowRight",
                     "w", "b", "e", "0", "^", "$", "G", "n", "N", "*"}
VisualMotionKeys == {"h", "j", "k", "l", "ArrowLeft", "ArrowDown", "ArrowUp", "ArrowRight",
                     "w", "b", "e", "0", "$"}

\* the key event about to be handled is a motion: a motion key of visual
\* mode, a motion key of normal mode reaching the single-key switch (with
\* or without a count typed before it), the second g of gg, or the argument
\* of f or F
IsMotion(key) ==
    \/ mode = "visual" /\ key \in VisualMotionKeys
    \/ /\ mode = "normal"
       /\ \/ /\ key \in NormalMotionKeys
             /\ commandBuffer = countBuffer
             /\ ~(key = "0" /\ Len(countBuffer) > 0)
          \/ commandBuffer = <<"g">> /\ key = "g"
          \/ commandBuffer \in {<<"f">>, <<"F">>} /\ IsChar(key) /\ key \notin Digits19

\* C2: a motion key handled in normal or visual mode from a valid cursor
\* leaves the cursor on a line of the buffer at a column of at most
\* max(0, length of that line - 1).
C2_MotionClamp ==
    [][(/\ event'.type = "key"
        /\ events' = events + 1
        /\ IsMotion(event'.key)
        /\ ValidCursorIn(lines, cursor, mode))
       => ValidCursorIn(lines', cursor', "normal")]_vars

\* the key event about to be handled deletes the whole content: dd with a
\* count reaching the last line from line 0, or a visual d, x or c whose
\* selection runs from the first character to the last
RemovesAll(key) ==
    \/ /\ mode = "normal"
       /\ commandBuffer = <<"d">>
       /\ key = "d"
       /\ cursor.line = 0
       /\ Len(lines) <= Max(1, parseInt(countBuffer))
    \/ /\ mode = "visual"
       /\ key \in {"d", "x", "c"}
       /\ selection # null
       /\ LET sel == normalizeSelection(selection[1])
          IN  /\ sel.start = [line |-> 0, col |-> 0]
              /\ sel.end.line = Len(lines) - 1
              /\ sel.end.col >= Len(lines[Len(lines)]) - 1

\* C3: the buffer always has at least one line, and a key that deletes the
\* whole content leaves exactly one empty line.
C3_NeverEmpty ==
    /\ [](Len(lines) >= 1)
    /\ [][(event'.type = "key" /\ events' = events + 1 /\ RemovesAll(event'.key))
             => lines' = << <<>> >>]_vars

\* dd has deleted the only line of the buffer, which was not empty
C3_Witness ==
    /\ event.type = "key"
    /\ event.key = "d"
    /\ lines = << <<>> >>
    /\ Len(registers[DQ]) > 1
    /\ registers[DQ][Len(registers[DQ])] = NL

\* the mode transitions a key may make
AllowedTransition(from, to, key, buffer) ==
    \/ /\ from = "normal"
       /\ to = "insert"
       /\ \/ key \in {"i", "a", "A", "I", "o", "O", "s", "S", "C"}
          \/ buffer \o <<key>> \in {<<"c", "c">>, <<"c", "w">>,
                                    <<"c", "i", DQ>>, <<"c", "i", SQ>>}
    \/ from = "normal" /\ to = "visual" /\ key \in {"v", "V"}
    \/ from = "normal" /\ to = "command" /\ key \in {":", "/"}
    \/ from = "insert" /\ to = "normal" /\ key = "Escape"
    \/ from = "visual" /\ to = "normal" /\ key \in {"Escape", "d", "x", "y"}
    \/ from = "visual" /\ to = "insert" /\ key = "c"
    \/ /\ from = "command"
       /\ to = "normal"
       /\ \/ key \in {"Escape", "Enter"}
          \/ key = "Backspace" /\ Len(buffer) <= 1

\* C4: the mode is normal at first; a key event changes the mode only by
\* one of the listed transitions, and a timer expiry never changes it.
C4_ModeMachine ==
    /\ mode = "normal"
    /\ [][/\ (event'.type = "key" /\ mode' # mode)
               => AllowedTransition(mode, mode', event'.key, commandBuffer)
          /\ event'.type = "timer" => mode' = mode]_vars

\* cw has been completed: the w after a pending c entered insert mode
C4_Witness ==
    /\ mode = "insert"
    /\ event.type = "key"
    /\ event.key = "w"
    /\ events >= 2

\* C5: the selection is present exactly while the mode is visual.
C5_SelectionIffVisual == (selection # null) <=> (mode = "visual")

\* visual mode was entered and left again by y, which cleared the selection
C5_Witness ==
    /\ mode = "normal"
    /\ selection = null
    /\ event.type = "key"
    /\ event.key = "y"
    /\ commandBuffer = <<>>
    /\ Len(registers[DQ]) > 0
    /\ registers[DQ][Len(registers[DQ])] # NL


\* the lines ls without the k lines that start at line i
WithoutLines(ls, i, k) == SubSeq(ls, 1, i) \o SubSeq(ls, i + k + 1, Len(ls))

\* C6: a count n typed before dd removes exactly min(n, len(lines) -
\* cursor.line) lines starting at the cursor line, leaves one empty line
\* when nothing remains, and leaves the cursor on a line of the buffer.
C6_CountedDeleteLine ==
    \A n \in CountKeys :
        Played(Script_ndd(n), 3) =>
            LET ls == origin.e.lines
                i == origin.e.cursor.line
                k == Min(Digit(n), Len(ls) - i)
                rest == WithoutLines(ls, i, k)
            IN  /\ lines = IF rest = <<>> THEN << <<>> >> ELSE rest
                /\ ValidCursorIn(lines, cursor, mode)

\* a decay timer is pending after n input events
PendingAfter(n) == timers # {} /\ events = n

\* the decay timer has expired, cleared the buffer and notified
Decayed ==
    /\ event.type = "timer"
    /\ timers = {}
    /\ commandBuffer = <<>>
    /\ notified

\* C7: a pending decay timer expires unless another event arrives first,
\* and its expiry clears commandBuffer and notifies; a d typed right after
\* the expiry leaves the lines alone and becomes a pending prefix with a
\* newly armed timer.
C7_PrefixDecay ==
    /\ \A n \in 0..MaxEvents : PendingAfter(n) ~> (events > n \/ Decayed)
    /\ [][(event.type = "timer" /\ event'.type = "key" /\ event'.key = "d")
             => /\ lines' = lines
                /\ commandBuffer' = <<"d">>
                /\ \E t \in timers' :
                      /\ t.prefix = "d"
                      /\ ~t.stale
                      /\ commandTimeout' = t.id
                      /\ t \notin timers]_vars

\* d was typed right after the decay timer of an earlier d expired
C7_Witness ==
    /\ event.type = "key"
    /\ event.key = "d"
    /\ event.after = "timer"
    /\ commandBuffer = <<"d">>
    /\ timers # {}
    /\ lines = origin.e.lines

\* C8: at most one decay timer is pending, no pending timer has outlived a
\* key event, a timer is pending in normal mode only, and whenever one is
\* pending commandBuffer is empty or holds the prefix that armed it and no
\* count is in progress.
C8_KeyCancelsTimer ==
    /\ Cardinality(timers) <= 1
    /\ \A t \in timers :
          /\ ~t.stale
          /\ commandBuffer \in {<<>>, <<t.prefix>>}
    /\ timers # {} => (mode = "normal" /\ countBuffer = <<>>)

\* a key typed while the timer of a prefix was pending cancelled it: the
\* second d of dd
C8_Witness ==
    /\ event.type = "key"
    /\ event.key = "d"
    /\ event.after = "key"
    /\ timers = {}
    /\ commandTimeout = 0
    /\ commandBuffer = <<>>
    /\ Len(registers[DQ]) > 0
    /\ registers[DQ][Len(registers[DQ])] = NL

\* C9 as claimed: d, d, p leaves lines equal to the original lines.
C9_RoundTrip == Played(Script_ddp, 3) => lines = origin.e.lines

\* the lines ls with lines i and i + 1 exchanged
Exchanged(ls, i) ==
    [j \in 1..Len(ls) |-> IF j = i + 1 THEN ls[i + 2]
                          ELSE IF j = i + 2 THEN ls[i + 1] ELSE ls[j]]

\* C9 as amended: d, d, p leaves lines equal to the original lines when the
\* cursor was on the last line of a buffer of at least two lines; on any
\* other line of such a buffer it exchanges the cursor line with the line
\* below it; on a buffer of one line it leaves an empty line followed by
\* that line.
C9_DeletePaste ==
    Played(Script_ddp, 3) =>
        LET ls == origin.e.lines
            i == origin.e.cursor.line
        IN  lines = IF Len(ls) = 1 THEN << <<>>, ls[1] >>
                    ELSE IF i = Len(ls) - 1 THEN ls
                    ELSE Exchanged(ls, i)

\* d, d, p was typed on the last line of a buffer of several lines, and on
\* a line that is not the last
C9_Witness ==
    /\ Played(Script_ddp, 3)
    /\ Len(origin.e.lines) >= 2
    /\ origin.e.cursor.line = Len(origin.e.lines) - 1
    /\ origin.e.lines[Len(origin.e.lines)] # origin.e.lines[1]
    /\ lines = origin.e.lines

\* C10: y, y changes neither lines nor cursor; y, y, p inserts one copy of
\* the cursor line right below it, keeps every original line in place and
\* order, and moves the cursor to the new line at column 0.
C10_YankPaste ==
    LET ls == origin.e.lines
        i == origin.e.cursor.line
    IN  /\ Played(Script_yyp, 2) =>
              /\ lines = ls
              /\ cursor = origin.e.cursor
              /\ registers[DQ] = ls[i + 1] \o <<NL>>
        /\ Played(Script_yyp, 3) =>
              /\ lines = SubSeq(ls, 1, i + 1) \o <<ls[i + 1]>> \o SubSeq(ls, i + 2, Len(ls))
              /\ cursor = [line |-> i + 1, col |-> 0]

\* y, y, p was typed on a line in the middle of a buffer, away from column 0
C10_Witness ==
    /\ Played(Script_yyp, 3)
    /\ Len(origin.e.lines) >= 3
    /\ origin.e.cursor.line = 1
    /\ origin.e.cursor.col > 0
    /\ Len(lines) = Len(origin.e.lines) + 1


\* C11 as claimed: on a non-empty line, at any column of it, x then P leaves
\* the line with its original text.
C11_RoundTrip ==
    (Played(Script_xP, 2) /\ Len(origin.e.lines[origin.e.cursor.line + 1]) > 0)
        => lines = origin.e.lines

\* the text with its last two characters exchanged
LastTwoExchanged(text) ==
    SubSeq(text, 1, Len(text) - 2) \o <<text[Len(text)], text[Len(text) - 1]>>

\* C11 as amended: on a non-empty line, x then P leaves the line with its
\* original text when the cursor is not on the last column or the line has
\* one character; on the last column of a longer line it leaves the line
\* with its last two characters exchanged.  The other lines are unchanged.
C11_CharDeletePaste ==
    LET ls == origin.e.lines
        i == origin.e.cursor.line
        col == origin.e.cursor.col
        text == ls[i + 1]
    IN  (Played(Script_xP, 2) /\ Len(text) > 0) =>
            lines = [ls EXCEPT ![i + 1] =
                        IF col < Len(text) - 1 \/ Len(text) = 1 THEN text
                        ELSE LastTwoExchanged(text)]

\* x, P was typed in the middle of a line, and on the last column of a line
\* of two different characters
C11_Witness ==
    /\ Played(Script_xP, 2)
    /\ origin.e.lines[origin.e.cursor.line + 1] = T_a_b
    /\ origin.e.cursor.col = 1
    /\ lines = origin.e.lines
    /\ registers[DQ] = <<" ">>


\* the positions at which the pattern occurs in the lines, letter case ignored
Occurrences(ls, pattern) ==
    LET longest == CHOOSE n \in {Len(ls[i]) : i \in 1..Len(ls)} :
                       \A i \in 1..Len(ls) : Len(ls[i]) <= n
    IN  { p \in [line : 0..(Len(ls) - 1), col : 0..longest] :
            OccursAt(toLowerCase(ls[p.line + 1]), toLowerCase(pattern), p.col) }

\* position p is before position q in the buffer
Before(p, q) == p.line < q.line \/ (p.line = q.line /\ p.col < q.col)

\* scanning forward from just after c and wrapping round to c, p is met
\* before q
MetForward(c, p, q) ==
    \/ Before(c, p) /\ ~Before(c, q)
    \/ (Before(c, p) <=> Before(c, q)) /\ Before(p, q)

\* the key is typed in normal mode as a command of its own, with a pattern
\* to search for
PlainKey(key) ==
    /\ event'.type = "key"
    /\ event'.key = key
    /\ mode = "normal"
    /\ commandBuffer = <<>>
    /\ countBuffer = <<>>
    /\ lastSearch # <<>>

\* C12: with lastSearch set, whenever the pattern occurs at a position other
\* than the cursor's, n moves the cursor to the occurrence met first when
\* scanning forward from just after the cursor, through the last line round
\* to the first line and on up to the cursor.
C12_SearchWraps ==
    [][PlainKey("n") =>
        LET others == Occurrences(lines, lastSearch) \ {cursor}
        IN  others # {} =>
               /\ cursor' \in others
               /\ \A q \in others \ {cursor'} : MetForward(cursor, cursor', q)]_vars


\* scanning backward from just before c and wrapping round to c, p is met
\* before q
MetBackward(c, p, q) ==
    \/ Before(p, c) /\ ~Before(q, c)
    \/ (Before(p, c) <=> Before(q, c)) /\ Before(q, p)

\* C13: with lastSearch set, whenever the pattern occurs at a position other
\* than the cursor's, N moves the cursor to the occurrence met first when
\* scanning backward from just before the cursor, through the first line
\* round to the last line; a cursor that sits on an occurrence moves to
\* another one.
C13_SearchBackward ==
    [][PlainKey("N") =>
        LET others == Occurrences(lines, lastSearch) \ {cursor}
        IN  others # {} =>
               /\ cursor' \in others
               /\ \A q \in others \ {cursor'} : MetBackward(cursor, cursor', q)]_vars


\* the pattern of a scripted search
PatternOf(s) == SubSeq(s, 2, Len(s) - 2)

\* C14: when the pattern occurs in no line of the buffer, /pattern, Enter
\* and then n or N leave lines and cursor unchanged at every step; after
\* Enter the pattern is recorded in lastSearch and the mode is normal again.
C14_FailedSearch ==
    LET s == origin.script
    IN  (Len(s) >= 4 /\ s[1] = "/" /\ Occurrences(origin.e.lines, PatternOf(s)) = {}) =>
            /\ lines = origin.e.lines
            /\ cursor = origin.e.cursor
            /\ Len(script) <= 1 =>
                  /\ lastSearch = PatternOf(s)
                  /\ mode = "normal"
                  /\ commandBuffer = <<>>

\* /b, Enter, N was typed away from the top of a buffer in which b occurs
\* nowhere
C14_Witness ==
    /\ Played(Script_search(<<"b">>, "N"), 4)
    /\ event.key = "N"
    /\ Occurrences(lines, <<"b">>) = {}
    /\ Len(lines) >= 2
    /\ cursor.line = 1
    /\ lastSearch = <<"b">>


\* the lines ls without the text from position lo to position hi, both
\* included
WithoutRange(ls, lo, hi) ==
    SubSeq(ls, 1, lo.line)
        \o << SubSeq(ls[lo.line + 1], 1, lo.col)
                \o SubSeq(ls[hi.line + 1], hi.col + 2, Len(ls[hi.line + 1])) >>
        \o SubSeq(ls, hi.line + 2, Len(ls))

\* C15: d in visual mode leaves the same lines, register and cursor as it
\* would with the anchor and the cursor of the selection exchanged, and the
\* text it removes runs from the earlier to the later of the two positions,
\* both included.
C15_VisualDelete ==
    [][(event'.type = "key" /\ event'.key = "d" /\ mode = "visual" /\ selection # null) =>
        LET sel == selection[1]
            exchanged == [Engine EXCEPT !.selection = <<[start |-> sel.end, end |-> sel.start]>>,
                                        !.cursor = sel.start]
            r == handleKeyDown(exchanged, "d", FALSE).e
            lo == IF Before(sel.end, sel.start) THEN sel.end ELSE sel.start
            hi == IF Before(sel.end, sel.start) THEN sel.start ELSE sel.end
        IN  /\ lines' = r.lines
            /\ registers' = r.registers
            /\ cursor' = r.cursor
            /\ lines' = WithoutRange(lines, lo, hi)]_vars

\* v, k, d was typed from the second line, away from column 0: the cursor
\* was before the anchor, and text of two lines was removed
C15_Witness ==
    /\ Played(Script_vd(<<"k">>), 3)
    /\ origin.e.cursor.line = 1
    /\ origin.e.cursor.col = 1
    /\ Len(origin.e.lines[1]) >= 2
    /\ Len(lines) = Len(origin.e.lines) - 1
    /\ cursor = [line |-> 0, col |-> 1]
    /\ mode = "normal"


\* the text with the first occurrence of search replaced by repl
FirstReplaced(text, search, repl) ==
    LET i == indexOf(text, search, 0)
    IN  IF i = -1 THEN text
        ELSE SubSeq(text, 1, i) \o repl \o SubSeq(text, i + Len(search) + 1, Len(text))

\* the text with every occurrence of search replaced by repl
RECURSIVE AllReplaced(_, _, _)
AllReplaced(text, search, repl) ==
    LET i == indexOf(text, search, 0)
    IN  IF i = -1 THEN text
        ELSE SubSeq(text, 1, i) \o repl
               \o AllReplaced(SubSeq(text, i + Len(search) + 1, Len(text)), search, repl)

\* C16: :s/search/replace/flags and Enter replaces, in the cursor's line, the
\* first occurrence of the literal string search by replace, and with the g
\* flag every occurrence; the other lines are unchanged.
C16_Substitution ==
    \A sub \in Substitutions :
        Played(Script_sub(sub), Len(Script_sub(sub))) =>
            LET ls == origin.e.lines
                i == origin.e.cursor.line
            IN  lines = [ls EXCEPT ![i + 1] =
                            IF sub.flags = <<"g">>
                            THEN AllReplaced(ls[i + 1], sub.search, sub.repl)
                            ELSE FirstReplaced(ls[i + 1], sub.search, sub.repl)]


\* the words after the colon that are commands
CommandWords ==
    { <<"w">>, <<"w", "r", "i", "t", "e">>, <<"q">>, <<"q", "u", "i", "t">>,
      <<"w", "q">>, <<"x">> }

\* the command line is a search, a command word, a line number or a
\* substitution with its search and replacement segments
Recognised(cmd) ==
    /\ Len(cmd) >= 2
    /\ \/ cmd[1] = "/"
       \/ /\ cmd[1] = ":"
          /\ LET command == Tail(cmd)
             IN  \/ command \in CommandWords
                 \/ \A i \in 1..Len(command) : command[i] \in Digits09
                 \/ /\ Len(command) >= 2
                    /\ SubSeq(command, 1, 2) = <<"s", "/">>
                    /\ Cardinality({i \in 1..Len(command) : command[i] = "/"}) >= 2

\* C17: Enter on a command line that is no recognised command returns to
\* normal mode with an empty commandBuffer and leaves lines, cursor,
\* registers, lastSearch and message unchanged.
C17_MalformedIgnored ==
    [][(event'.type = "key" /\ event'.key = "Enter" /\ mode = "command"
            /\ ~Recognised(commandBuffer)) =>
        /\ mode' = "normal"
        /\ commandBuffer' = <<>>
        /\ UNCHANGED <<lines, cursor, registers, lastSearch, message>>]_vars

\* y, y, :s/a, Enter was typed on a line with an a: the command line was
\* dropped, the line, the register and the message of the yank are kept
C17_Witness ==
    /\ Played(Script_malformed(<<"s", "/", "a">>), 7)
    /\ event.key = "Enter"
    /\ mode = "normal"
    /\ commandBuffer = <<>>
    /\ lines[cursor.line + 1] = T_ab
    /\ registers[DQ] = T_ab \o <<NL>>
    /\ message = "1 line(s) yanked"


\* C18: a bare modifier key has no meaning in any mode, and the handler
\* returns false for it.
C18_UnrecognizedKeys ==
    [][(event'.type = "key" /\ event'.key = "Shift") => ret' = FALSE]_vars


\* the fields of the buffer state
BufferState ==
    <<lines, cursor, mode, selection, commandBuffer, registers, lastSearch, message>>

\* C19: every event that changes a field of the buffer state invokes the
\* subscribed callback.
C19_NotifiedOnChange ==
    [][BufferState' # BufferState => notified']_vars


\* C20: after a key event, the lines, cursor, selection and registers read
\* from the snapshot taken before the key equal the values they had when
\* the snapshot was taken.
C20_SnapshotUnaffected ==
    [][event'.type = "key" =>
        LET snapshot == prevState(Engine, handleKeyDown(Engine, event'.key, FALSE).e)
        IN  /\ snapshot.lines = lines
            /\ snapshot.cursor = cursor
            /\ snapshot.selection = selection
            /\ snapshot.registers = registers]_vars


\* C21: a content load sets lines to the loaded content, cursor to (0,0),
\* mode to normal, selection to null and commandBuffer to empty, invokes the
\* change callback, and leaves registers, lastSearch and message unchanged.
C21_ContentLoad ==
    [][event'.type = "load" =>
        /\ lines' \in LoadContents
        /\ cursor' = [line |-> 0, col |-> 0]
        /\ mode' = "normal"
        /\ selection' = null
        /\ commandBuffer' = <<>>
        /\ notified'
        /\ UNCHANGED <<registers, lastSearch, message>>]_vars

\* content was loaded over a buffer that keys had changed: the register
\* filled by a deletion is kept
C21_Witness ==
    /\ event.type = "load"
    /\ event.after = "key"
    /\ lines \in LoadContents
    /\ cursor = [line |-> 0, col |-> 0]
    /\ mode = "normal"
    /\ registers[DQ] # <<>>


\* the key is pressed in the mode
Pressed(key, m) == event'.type = "key" /\ event'.key = key /\ mode = m

\* the key is pressed in normal mode with no prefix pending: the command
\* buffer shows nothing but the count typed so far
Commanded(key) == Pressed(key, "normal") /\ commandBuffer = countBuffer

\* the count typed so far
Count == IF countBuffer = <<>> THEN 1 ELSE parseInt(countBuffer)

\* the text ends with a newline
EndsWithNL(text) == Len(text) > 0 /\ text[Len(text)] = NL

\* C22: after x, with or without a count, on a character of the line the
\* register holds all the characters removed; after S or c, c on a
\* non-empty line it holds the text of the line.
C22_RegisterFilled ==
    [][LET line == getCurrentLine(Engine)
           col == cursor.col
       IN  /\ (Commanded("x") /\ col < Len(line)) =>
                 registers'[DQ] = substring(line, col, col + Count)
           /\ ((Commanded("S") \/ (Pressed("c", "normal") /\ commandBuffer = <<"c">>))
                   /\ Len(line) > 0) =>
                 registers'[DQ] \in {line, line \o <<NL>>}]_vars

\* the key completes d, d or y, y
WholeLineCommand ==
    /\ event'.type = "key"
    /\ mode = "normal"
    /\ commandBuffer \o <<event'.key>> \in {<<"d", "d">>, <<"y", "y">>}

\* C23: a step that changes the register leaves it ending with a newline
\* if and only if the step is d, d or y, y.
C23_TrailingNewline ==
    [][registers'[DQ] # registers[DQ] =>
         (EndsWithNL(registers'[DQ]) <=> WholeLineCommand)]_vars

\* the key produces a message of its own
SetsMessage ==
    \/ Pressed("u", "normal")
    \/ Pressed("y", "normal") /\ commandBuffer = <<"y">>
    \/ Pressed("Enter", "command")

\* C24: a message does not survive the next consumed key event, unless that
\* event produces a message of its own.
C24_MessageTransient ==
    [][(event'.type = "key" /\ ret' /\ message # "" /\ ~SetsMessage) => message' = ""]_vars


\* C25: u pressed in normal mode as a command (not as the argument of a
\* pending r, f or F) is consumed, sets a non-empty message, and leaves
\* lines, cursor, mode, selection and registers unchanged.
C25_UndoReported ==
    [][(Pressed("u", "normal") /\ commandBuffer \notin {<<"r">>, <<"f">>, <<"F">>}) =>
        /\ ret'
        /\ message' # ""
        /\ UNCHANGED <<lines, cursor, mode, selection, registers>>]_vars

\* u was pressed after a deletion had filled the register
C25_Witness ==
    /\ event.type = "key"
    /\ event.key = "u"
    /\ event.after = "key"
    /\ mode = "normal"
    /\ ret
    /\ message = "Undo not available in this trainer"
    /\ registers[DQ] # <<>>


\* the line with the character at column col replaced by c
ReplacedAt(line, col, c) == [i \in 1..Len(line) |-> IF i = col + 1 THEN c ELSE line[i]]

\* C26: with r pending, a digit from 1 to 9 is taken as the argument of r:
\* it replaces the character under the cursor, the pending prefix is
\* cleared and no count is started.
C26_ArgumentBeatsCount ==
    [][(event'.type = "key" /\ event'.key \in Digits19 /\ mode = "normal"
           /\ commandBuffer = <<"r">> /\ cursor.col < Len(getCurrentLine(Engine))) =>
        /\ getCurrentLine(Engine)' = ReplacedAt(getCurrentLine(Engine), cursor.col, event'.key)
        /\ commandBuffer' = <<>>
        /\ countBuffer' = <<>>]_vars

\* C27: with c or d pending, the key i is held as part of the pending
\* command and does not itself enter insert mode.
C27_QuoteObjectPending ==
    [][(Pressed("i", "normal") /\ commandBuffer \in {<<"c">>, <<"d">>}) =>
        /\ mode' = "normal"
        /\ commandBuffer' = commandBuffer \o <<"i">>
        /\ UNCHANGED <<lines, cursor>>]_vars

\* C28: with r pending, a character other than a count digit leaves mode,
\* cursor, the number of lines and the length of the current line
\* unchanged, and changes the current line at most at the cursor column;
\* on an empty line nothing is inserted.
C28_ReplaceInPlace ==
    [][(event'.type = "key" /\ IsChar(event'.key) /\ event'.key \notin Digits19
           /\ mode = "normal" /\ commandBuffer = <<"r">>) =>
        /\ mode' = "normal"
        /\ cursor' = cursor
        /\ Len(lines') = Len(lines)
        /\ Len(getCurrentLine(Engine)') = Len(getCurrentLine(Engine))
        /\ \A i \in 1..Len(lines) : i # cursor.line + 1 => lines'[i] = lines[i]
        /\ \A j \in 1..Len(getCurrentLine(Engine)) :
              getCurrentLine(Engine)'[j] =
                 IF j = cursor.col + 1 THEN event'.key ELSE getCurrentLine(Engine)[j]]_vars


\* the last column of a line in normal mode
LastCol(line) == Max(0, Len(line) - 1)

\* C29: a count typed before j, k, h or l moves the cursor that many times
\* in the motion's direction, clamped to the buffer and the line, and the
\* count is then discarded, so that the next command acts once; a digit
\* from 1 to 9 extends the count; 0 is the column-0 motion when no count is
\* in progress, and extends the count otherwise.
C29_CountAppliedOnce ==
    [][/\ Commanded("j") =>
            LET l == Min(cursor.line + Count, Len(lines) - 1)
            IN  cursor' = [line |-> l, col |-> Min(cursor.col, LastCol(lines[l + 1]))]
       /\ Commanded("k") =>
            LET l == Max(cursor.line - Count, 0)
            IN  cursor' = [line |-> l, col |-> Min(cursor.col, LastCol(lines[l + 1]))]
       /\ Commanded("h") =>
            cursor' = [cursor EXCEPT !.col = Max(0, cursor.col - Count)]
       /\ Commanded("l") =>
            cursor' = [cursor EXCEPT !.col = Min(LastCol(getCurrentLine(Engine)),
                                                 cursor.col + Count)]
       /\ (\E key \in CountedMotions : Commanded(key)) =>
            countBuffer' = <<>> /\ commandBuffer' = <<>> /\ lines' = lines
       /\ (\E d \in Digits19 : Commanded(d)) =>
            countBuffer' = countBuffer \o <<event'.key>> /\ UNCHANGED <<lines, cursor>>
       /\ (Commanded("0") /\ countBuffer # <<>>) =>
            countBuffer' = countBuffer \o <<"0">> /\ UNCHANGED <<lines, cursor>>
       /\ (Commanded("0") /\ countBuffer = <<>>) =>
            /\ cursor' = [cursor EXCEPT !.col = 0]
            /\ countBuffer' = <<>>
            /\ lines' = lines]_vars

\* 3, j, j was typed on the first line of the buffer of five lines: the
\* count took the cursor down three lines and the second j one more
C29_Witness ==
    /\ Played(Script_count("3", "j"), 3)
    /\ origin.e.lines = FiveLines
    /\ origin.e.cursor.line = 0
    /\ cursor.line = 4
    /\ countBuffer = <<>>

\* C30: x with count n on column c of a line of length L removes the
\* min(n, L - c) characters from column c on and none to the left of it;
\* X with count n removes the min(n, c) characters just before column c and
\* none at or after it.  The other lines are unchanged.
C30_CountedCharDelete ==
    [][LET line == getCurrentLine(Engine)
           c == cursor.col
       IN  /\ Commanded("x") =>
                lines' = [lines EXCEPT ![cursor.line + 1] =
                            SubSeq(line, 1, c)
                              \o SubSeq(line, c + Min(Count, Len(line) - c) + 1, Len(line))]
           /\ Commanded("X") =>
                lines' = [lines EXCEPT ![cursor.line + 1] =
                            SubSeq(line, 1, c - Min(Count, c))
                              \o SubSeq(line, c + 1, Len(line))]]_vars


\* C31: with an empty register p and P change neither the lines nor the
\* cursor; with a register ending in a newline p puts the stored lines just
\* after the cursor line and P just before it, the lines of the buffer stay
\* as they were and the cursor goes to the first line put, column 0; with
\* any other register p puts the text just after the character under the
\* cursor and P just before it, and only the current line changes.
C31_PastePlacement ==
    [][\A key \in {"p", "P"} :
         Commanded(key) =>
           LET text == registers[DQ]
               after == IF key = "p" THEN 1 ELSE 0
           IN  IF text = <<>>
               THEN UNCHANGED <<lines, cursor>>
               ELSE IF EndsWithNL(text)
               THEN LET stored == splitNL(SubSeq(text, 1, Len(text) - 1))
                        at == cursor.line + after
                    IN  /\ lines' = SubSeq(lines, 1, at) \o stored
                                        \o SubSeq(lines, at + 1, Len(lines))
                        /\ cursor' = [line |-> at, col |-> 0]
               ELSE LET line == lines[cursor.line + 1]
                        at == Min(cursor.col + after, Len(line))
                    IN  lines' = [lines EXCEPT ![cursor.line + 1] =
                                    SubSeq(line, 1, at) \o text
                                      \o SubSeq(line, at + 1, Len(line))]]_vars

\* x took the a of ab and p put it back after the b
C31_Witness ==
    /\ event.type = "key"
    /\ event.key = "p"
    /\ origin.e.lines = <<T_ab>>
    /\ registers[DQ] = <<"a">>
    /\ lines = << <<"b", "a">> >>
    /\ mode = "normal"


\* C32: v leaves the cursor where it is and sets both ends of the selection
\* to it; a motion key handled in visual mode leaves the start of the
\* selection unchanged, sets its end to the new cursor and changes neither
\* the lines nor the registers.
C32_SelectionTracking ==
    [][/\ Commanded("v") =>
            /\ cursor' = cursor
            /\ selection' = <<[start |-> cursor, end |-> cursor]>>
       /\ \A key \in VisualMotionKeys :
            Pressed(key, "visual") =>
                /\ selection # null
                /\ selection' # null
                /\ selection'[1].start = selection[1].start
                /\ selection'[1].end = cursor'
                /\ UNCHANGED <<lines, registers>>]_vars

\* v then l on ab: the selection runs from column 0 to the cursor on column 1
C32_Witness ==
    /\ event.type = "key"
    /\ event.key = "l"
    /\ mode = "visual"
    /\ lines = <<T_ab>>
    /\ cursor = [line |-> 0, col |-> 1]
    /\ selection = <<[start |-> [line |-> 0, col |-> 0], end |-> cursor]>>


\* C33: in every mode an Escape key event is consumed and leaves mode
\* normal, no selection, an empty command buffer and no pending count,
\* with the lines and the registers as they were; leaving insert mode it
\* also moves the cursor one column to the left, stopping at column 0.
C33_EscapeClean ==
    [][\A m \in {"normal", "insert", "visual", "command"} :
         Pressed("Escape", m) =>
            /\ ret'
            /\ mode' = "normal"
            /\ selection' = null
            /\ commandBuffer' = <<>>
            /\ countBuffer' = <<>>
            /\ UNCHANGED <<lines, registers>>
            /\ m = "insert" =>
                  cursor' = [cursor EXCEPT !.col = Max(0, cursor.col - 1)]]_vars

\* a, then a character typed, then Escape on ab: the cursor went from
\* column 2 back to column 1
C33_Witness ==
    /\ event.type = "key"
    /\ event.key = "Escape"
    /\ event.after = "key"
    /\ origin.e.lines = <<T_ab>>
    /\ Len(lines[1]) = 3
    /\ cursor = [line |-> 0, col |-> 1]
    /\ mode = "normal"
    /\ ret


\* C34: a key event for which the handler returns false leaves the whole
\* engine state as it was: lines, cursor, mode, selection, command buffer,
\* pending count, registers, last search and message.
C34_UnconsumedKeyFrame ==
    [][(event'.type = "key" /\ ~ret') =>
          UNCHANGED <<lines, cursor, mode, selection, commandBuffer, countBuffer,
                      registers, lastSearch, message>>]_vars


\* a newly constructed engine holding the lines, with the registers, the
\* last search and the message of the engine in use
Fresh ==
    [constructor(lines) EXCEPT !.registers = registers,
                               !.lastSearch = lastSearch,
                               !.message = message]

\* C35: the first key event after a content load is interpreted as on a
\* newly constructed engine holding that content: it returns the same value
\* and leaves the same lines, cursor, mode, selection, command buffer and
\* pending count, whatever count or prefix was typed before the load.
C35_LoadStartsAfresh ==
    [][(event.type = "load" /\ event'.type = "key") =>
          LET r == handleKeyDown(Fresh, event'.key, FALSE)
          IN  /\ ret' = r.ret
              /\ lines' = r.e.lines
              /\ cursor' = r.e.cursor
              /\ mode' = r.e.mode
              /\ selection' = r.e.selection
              /\ commandBuffer' = r.e.commandBuffer
              /\ countBuffer' = r.e.countBuffer]_vars


\* the cursor is on the last character of the last line
OnLastCharacter ==
    /\ cursor.line = Len(lines) - 1
    /\ cursor.col >= LastCol(lines[cursor.line + 1])

\* position a comes before position b in (line, col) order
Earlier(a, b) == a.line < b.line \/ (a.line = b.line /\ a.col < b.col)

\* C36: in normal mode, unless the cursor is on the last character of the
\* last line, w moves the cursor to a strictly later position in
\* (line, col) order, whatever character is under the cursor.
C36_WordForwardProgress ==
    [][(Commanded("w") /\ ~OnLastCharacter) => Earlier(cursor, cursor')]_vars


\* C37: C with the cursor on column c of the line leaves the first c
\* characters of the line, mode insert and the cursor on column c; s with
\* the cursor on a character at column c removes that character and leaves
\* mode insert and the cursor on column c, the last column of the line
\* included.
C37_ChangeInsertionPoint ==
    [][LET line == lines[cursor.line + 1]
           c == cursor.col
       IN  /\ (Commanded("C") /\ c <= Len(line)) =>
                /\ lines' = [lines EXCEPT ![cursor.line + 1] = SubSeq(line, 1, c)]
                /\ mode' = "insert"
                /\ cursor' = cursor
           /\ (Commanded("s") /\ c < Len(line)) =>
                /\ lines' = [lines EXCEPT ![cursor.line + 1] =
                                SubSeq(line, 1, c) \o SubSeq(line, c + 2, Len(line))]
                /\ mode' = "insert"
                /\ cursor' = cursor]_vars

====
